---- MODULE Spec2Model ----
(***************************************************************************)
(* ContentStudio API: the media generation facade, the asset persistence   *)
(* pipeline and the storage / metadata-store / queue gateways, as a state  *)
(* machine.                                                                *)
(*                                                                         *)
(* Python strings are sequences of tokens: a token is one character or a   *)
(* literal chunk that holds none of the characters the code looks for.     *)
(* Values that may be None, or whose Python type matters, are tagged       *)
(* records [t |-> "str" | "bytes" | "int" | "list" | "dict" | "None"].     *)
(* A call that can fail returns the SET of its outcomes, each              *)
(* [w |-> world after, exc |-> raised?, val |-> value or message].         *)
(***************************************************************************)
EXTENDS Integers, Sequences, FiniteSets, TLC

VARIABLES
    blobs,          \* the bucket: object key -> bytes
    assets,         \* the 'assets' table: sequence of rows, in insert order
    templates,      \* the 'templates' table: sequence of rows, in store order
    clock,          \* datetime.now(timezone.utc), in ticks
    queue,          \* messages the broker acknowledged
    genClient,      \* VertexGenerator.client is not None
    storageClient,  \* StorageService.client is not None
    supabaseClient, \* SupabaseService.client is not None
    publisher,      \* PubSubService.publisher is not None
    last,           \* the last operation: name, outcome, collaborator calls
    deps            \* the cached dependency getters and the instances built

vars == <<blobs, assets, templates, clock, queue, genClient, storageClient,
          supabaseClient, publisher, last, deps>>

-----------------------------------------------------------------------------
(* The dependency getters of the router: each is wrapped in lru_cache() and
   is a plain function, which the framework runs on a worker thread. *)

Getters == { "get_generator", "get_supabase_service", "get_storage_service",
             "get_pubsub_service", "get_helper_service" }
Classes == { "VertexGenerator", "SupabaseService", "StorageService",
             "PubSubService", "HelperService" }

\* the class a getter constructs
ClassOf == [g \in Getters |->
              CASE g = "get_generator" -> "VertexGenerator"
                [] g = "get_supabase_service" -> "SupabaseService"
                [] g = "get_storage_service" -> "StorageService"
                [] g = "get_pubsub_service" -> "PubSubService"
                [] g = "get_helper_service" -> "HelperService"]

\* the instances a constructor of class c makes, itself included:
\* VertexGenerator.__init__ (once its client is made) and
\* HelperService.__init__ each make a StorageService and a SupabaseService
Constructs(c, clientMade) ==
    [k \in Classes |->
        IF k = c THEN 1
        ELSE IF /\ k \in {"StorageService", "SupabaseService"}
                /\ \/ c = "HelperService"
                   \/ c = "VertexGenerator" /\ clientMade
        THEN 1 ELSE 0]

\* nothing called yet: cached[g] is the instance in g's cache (0: none),
\* calling[g] the threads inside g's body, built[c] the instances of c made,
\* used[g] the instances g has returned to requests
Cold == [cached |-> [g \in Getters |-> 0],
         calling |-> [g \in Getters |-> 0],
         built |-> [c \in Classes |-> 0],
         used |-> [g \in Getters |-> {}]]

\* every getter called once, one after the other
Warm(clientMade) ==
    [cached |-> [g \in Getters |-> 1],
     calling |-> [g \in Getters |-> 0],
     built |-> [c \in Classes |->
                  1 + Constructs("VertexGenerator", clientMade)[c]
                    + Constructs("HelperService", clientMade)[c]
                    - (IF c \in {"VertexGenerator", "HelperService"} THEN 1 ELSE 0)],
     used |-> [g \in Getters |-> {1}]]

-----------------------------------------------------------------------------
(* Bounds *)

\* an operation that stores starts only below these sizes
MaxBlobs == 1
MaxAssets == 1

-----------------------------------------------------------------------------
(* Python values *)

None == [t |-> "None"]
Str(s) == [t |-> "str", v |-> s]
Bytes(b) == [t |-> "bytes", v |-> b]
IntV(i) == [t |-> "int", v |-> i]
List(l) == [t |-> "list", v |-> l]
\* a dict: keys (strings) -> values
Dict(f) == [t |-> "dict", items |-> f]
\* the in-band error marker {"error": message}
ErrorDict(m) == Dict(<<"error">> :> m)
\* key in d
HasKey(d, k) == k \in DOMAIN d.items

\* bool(x)
Truthy(x) ==
    CASE x.t = "None" -> FALSE
      [] x.t = "int" -> x.v # 0
      [] x.t = "dict" -> DOMAIN x.items # {}
      [] x.t \in {"Blob", "Content", "Video"} -> TRUE
      [] OTHER -> Len(x.v) > 0

Ret(w, v) == [w |-> w, exc |-> FALSE, val |-> v]
Raise(w, m) == [w |-> w, exc |-> TRUE, val |-> m]

\* str(e) of an exception raised by an external client
StorageErrors == { <<"storage error">> }
SupabaseErrors == { <<"supabase error">> }
\* any text, "" included
ModelErrors == { <<>>, <<"model error">> }

\* the collaborator calls of the running operation, in order
Called(w, c) == [w EXCEPT !.calls = Append(@, c)]

-----------------------------------------------------------------------------
(* str methods and urllib.parse.urlparse *)

RECURSIVE Find(_, _, _)
\* least i >= from with s[i] \in chars, 0 when there is none
Find(s, chars, from) ==
    IF from > Len(s) THEN 0
    ELSE IF s[from] \in chars THEN from
    ELSE Find(s, chars, from + 1)

RECURSIVE RFind(_, _, _)
\* greatest i <= from with s[i] \in chars, 0 when there is none
RFind(s, chars, from) ==
    IF from < 1 THEN 0
    ELSE IF s[from] \in chars THEN from
    ELSE RFind(s, chars, from - 1)

\* s[:i-1] for a 1-based i, all of s when i = 0
Before(s, i) == IF i = 0 THEN s ELSE SubSeq(s, 1, i - 1)

\* s[i:] for a 1-based i
From(s, i) == SubSeq(s, i, Len(s))

StartsWith(s, p) == Len(s) >= Len(p) /\ SubSeq(s, 1, Len(p)) = p

RECURSIVE Replace(_, _)
\* s.replace(p, "") for a non-empty p
Replace(s, p) ==
    IF Len(s) = 0 THEN s
    ELSE IF StartsWith(s, p) THEN Replace(From(s, Len(p) + 1), p)
    ELSE <<Head(s)>> \o Replace(Tail(s), p)

\* s.lstrip("/")
LStripSlash(s) ==
    LET i == CHOOSE k \in 1..(Len(s) + 1) :
                /\ \A j \in 1..(k - 1) : s[j] = "/"
                /\ k = Len(s) + 1 \/ s[k] # "/"
    IN  From(s, i)

\* s.split("/", 1)
SplitSlash1(s) ==
    LET i == Find(s, {"/"}, 1)
    IN  IF i = 0 THEN <<s>> ELSE <<SubSeq(s, 1, i - 1), From(s, i + 1)>>

\* urlparse(url).path: drop the scheme, the netloc after "//" (up to the first
\* of / ? #), the fragment, the query, and the ;params of the last segment
urlparse_path(url) ==
    LET hasScheme == Len(url) > 0 /\ url[1] = "https:"
        rest == IF hasScheme THEN Tail(url) ELSE url
        hasNet == Len(rest) >= 2 /\ rest[1] = "/" /\ rest[2] = "/"
        r2 == From(rest, 3)
        d == Find(r2, {"/", "?", "#"}, 1)
        afterNet == IF hasNet
                    THEN (IF d = 0 THEN <<>> ELSE From(r2, d))
                    ELSE rest
        noFrag == Before(afterNet, Find(afterNet, {"#"}, 1))
        noQuery == Before(noFrag, Find(noFrag, {"?"}, 1))
        slash == RFind(noQuery, {"/"}, Len(noQuery))
        semi == IF slash > 0 THEN Find(noQuery, {";"}, slash)
                             ELSE Find(noQuery, {";"}, 1)
    IN  IF hasScheme THEN Before(noQuery, semi) ELSE noQuery

-----------------------------------------------------------------------------
(* base64.b64encode(...).decode("utf-8") *)

B64Alphabet ==
    << "A","B","C","D","E","F","G","H","I","J","K","L","M","N","O","P",
       "Q","R","S","T","U","V","W","X","Y","Z","a","b","c","d","e","f",
       "g","h","i","j","k","l","m","n","o","p","q","r","s","t","u","v",
       "w","x","y","z","0","1","2","3","4","5","6","7","8","9","+","/" >>

B64Char(n) == B64Alphabet[n + 1]

RECURSIVE b64encode(_)
b64encode(b) ==
    IF Len(b) = 0 THEN <<>>
    ELSE IF Len(b) = 1 THEN
        << B64Char(b[1] \div 4), B64Char((b[1] % 4) * 16), "=", "=" >>
    ELSE IF Len(b) = 2 THEN
        << B64Char(b[1] \div 4),
           B64Char((b[1] % 4) * 16 + b[2] \div 16),
           B64Char((b[2] % 16) * 4), "=" >>
    ELSE
        << B64Char(b[1] \div 4),
           B64Char((b[1] % 4) * 16 + b[2] \div 16),
           B64Char((b[2] % 16) * 4 + b[3] \div 64),
           B64Char(b[3] % 64) >> \o b64encode(From(b, 4))

-----------------------------------------------------------------------------
(* StorageService *)

HOST == "storage.googleapis.com"
\* settings.GCS_BUCKET_NAME
BUCKET == "bucket"

url_prefix == <<"https:", "/", "/", HOST, "/", BUCKET, "/">>

\* uuid.uuid4().hex[:8]
Hexes == { "0a1b2c3d", "4e5f6a7b" }

Put(f, k, v) == [x \in (DOMAIN f) \cup {k} |-> IF x = k THEN v ELSE f[x]]

\* data is Bytes(..) or None; blob.upload_from_string(None) raises TypeError
upload_bytes(w, data, prefix, ext, content_type) ==
    IF ~storageClient
    THEN { Raise(w, <<"Storage client not available">>) }
    ELSE IF data.t # "bytes"
    THEN { Raise(w, <<"None could not be converted to bytes">>) }
    ELSE { Raise(Called(w, [op |-> "upload_failed", error |-> m]), m)
           : m \in StorageErrors }
         \cup
         { LET filename == prefix \o <<"_", h, ".">> \o ext
           IN  Ret(Called([w EXCEPT !.blobs = Put(@, filename, data.v)],
                          [op |-> "upload", key |-> filename, data |-> data.v]),
                   url_prefix \o filename)
           : h \in Hexes }

download_image_as_base64(w, image_url) ==
    IF ~storageClient THEN { Ret(w, None) }
    ELSE IF image_url.t # "str" THEN { Ret(w, None) }
    ELSE IF ~StartsWith(image_url.v, url_prefix) THEN { Ret(w, None) }
    ELSE LET blob_name == Replace(image_url.v, url_prefix)
         IN  { Ret(Called(w, [op |-> "download", key |-> blob_name]), None) }
             \cup
             (IF blob_name \in DOMAIN w.blobs
              THEN { Ret(Called(w, [op |-> "download", key |-> blob_name]),
                         Str(b64encode(w.blobs[blob_name]))) }
              ELSE {})

\* the facade calls self.storage.download_image_as_bytes, which StorageService
\* does not define: the attribute lookup raises AttributeError
download_image_as_bytes(w, image_url) ==
    { Raise(w, <<"'StorageService' object has no attribute 'download_image_as_bytes'">>) }

generate_signed_url(w, blob_name) ==
    IF ~storageClient
    THEN { Raise(w, <<"'NoneType' object has no attribute 'bucket'">>) }
    ELSE { Raise(Called(w, [op |-> "sign_failed", key |-> blob_name]), m)
           : m \in StorageErrors }
         \cup
         { Ret(Called(w, [op |-> "sign", key |-> blob_name]),
               url_prefix \o blob_name \o <<"?", "X-Goog-Signature">>) }

-----------------------------------------------------------------------------
(* SupabaseService *)

\* the insert's metadata argument: `metadata or {}`
insert_asset(w, user_id, asset_type, source, storage_path, metadata) ==
    IF ~supabaseClient THEN { Ret(w, None) }
    ELSE { Ret(Called(w, [op |-> "insert_asset_failed"]), ErrorDict(m))
           : m \in SupabaseErrors }
         \cup
         { LET row == [asset_id |-> IntV(Len(w.assets) + 1),
                       user_id |-> user_id,
                       type |-> asset_type,
                       source |-> source,
                       storage_path |-> storage_path,
                       metadata |-> metadata]
           IN  Ret(Called([w EXCEPT !.assets = Append(@, row)],
                          [op |-> "insert_asset", path |-> storage_path,
                           source |-> source]),
                   List(<<row>>)) }

\* the rows of `templates` with the conflict target of the upsert,
\* (template_name, category, product_type)
SameTriple(r, d) ==
    /\ r.template_name = d.template_name
    /\ r.category = d.category
    /\ r.product_type = d.product_type

\* an insert where the upsert should be: data is always added
upsert_rows_insert_only(rows, data) == Append(rows, data)

\* table("templates").upsert(data, on_conflict=...): the row with data's triple
\* is replaced by data, or data is added
upsert_rows(rows, data) ==
    IF \E i \in 1..Len(rows) : SameTriple(rows[i], data)
    THEN [i \in 1..Len(rows) |-> IF SameTriple(rows[i], data) THEN data ELSE rows[i]]
    ELSE Append(rows, data)

upsert_template(w, template_name, category, product_type, image_url, prompt) ==
    IF ~supabaseClient
    THEN { Ret(w, ErrorDict(<<"Supabase client not available">>)) }
    ELSE
        LET data == [template_name |-> template_name,
                     category |-> category,
                     product_type |-> product_type,
                     image_url |-> image_url,
                     prompt |-> prompt,
                     updated_date |-> w.clock]
            t == [w EXCEPT !.clock = @ + 1]
        IN  { Ret(Called(t, [op |-> "upsert_failed"]), ErrorDict(m))
              : m \in SupabaseErrors }
            \cup
            { Ret(Called([t EXCEPT !.templates = upsert_rows(@, data)],
                         [op |-> "upsert", data |-> data, before |-> w.templates]),
                  List(<<data>>)) }

\* code points of the characters product types are written in
CodePoint == ("B" :> 66) @@ ("a" :> 97) @@ ("b" :> 98)

RECURSIVE StrLess(_, _)
\* s < t for Python strings
StrLess(s, t) ==
    IF Len(t) = 0 THEN FALSE
    ELSE IF Len(s) = 0 THEN TRUE
    ELSE IF CodePoint[Head(s)] # CodePoint[Head(t)]
    THEN CodePoint[Head(s)] < CodePoint[Head(t)]
    ELSE StrLess(Tail(s), Tail(t))

RECURSIVE Insert(_, _)
\* x put before the first element of the sorted list l that it is less than
Insert(x, l) ==
    IF Len(l) = 0 THEN <<x>>
    ELSE IF StrLess(x, Head(l)) THEN <<x>> \o l
    ELSE <<Head(l)>> \o Insert(x, Tail(l))

\* sorted(...) without the sort
sorted_missing(l) == l

RECURSIVE sorted(_)
\* sorted(l) of a list of strings
sorted(l) == IF Len(l) = 0 THEN <<>> ELSE Insert(Head(l), sorted(Tail(l)))

\* the orders a set can be iterated in
Perms(S) == { q \in [1..Cardinality(S) -> S] : \A x \in S : \E i \in DOMAIN q : q[i] = x }

RECURSIVE Filter(_, _)
\* the elements of q that are in S, in q's order
Filter(q, S) ==
    IF Len(q) = 0 THEN <<>>
    ELSE IF Head(q) \in S THEN <<Head(q)>> \o Filter(Tail(q), S)
    ELSE Filter(Tail(q), S)

\* the loop over the rows: category -> set of product types, for the rows
\* whose category and product_type are both truthy
category_map(data) ==
    LET kept == { i \in 1..Len(data) :
                    Truthy(data[i].category) /\ Truthy(data[i].product_type) }
        cats == { data[i].category.v : i \in kept }
    IN  [c \in cats |-> { data[i].product_type.v :
                            i \in { k \in kept : data[k].category.v = c } }]

get_template_filters(w) ==
    IF ~supabaseClient
    THEN { Ret(w, ErrorDict(<<"Supabase client not available">>)) }
    ELSE { Ret(Called(w, [op |-> "select_failed"]), ErrorDict(m))
           : m \in SupabaseErrors }
         \cup
         { LET m == category_map(w.templates)
           IN  Ret(Called(w, [op |-> "select", rows |-> w.templates]),
                   Dict([c \in DOMAIN m |-> sorted(Filter(q, m[c]))]))
           : q \in Perms(UNION { category_map(w.templates)[c]
                                 : c \in DOMAIN category_map(w.templates) }) }

\* table("templates").select("*").eq("category", ..).eq("product_type", ..)
get_templates(w, category, product_type) ==
    IF ~supabaseClient
    THEN { Ret(w, ErrorDict(<<"Supabase client not available">>)) }
    ELSE { Ret(Called(w, [op |-> "select_templates_failed"]), ErrorDict(m))
           : m \in SupabaseErrors }
         \cup
         { Ret(Called(w, [op |-> "select_templates"]),
               List(SelectSeq(w.templates,
                              LAMBDA r : /\ r.category = category
                                         /\ r.product_type = product_type))) }

\* table("assets").select("*").eq("user_id", user_id)
get_user_assets(w, user_id) ==
    IF ~supabaseClient
    THEN { Ret(w, ErrorDict(<<"Supabase client not available">>)) }
    ELSE { Ret(Called(w, [op |-> "select_assets_failed"]), ErrorDict(m))
           : m \in SupabaseErrors }
         \cup
         { Ret(Called(w, [op |-> "select_assets"]),
               List(SelectSeq(w.assets, LAMBDA r : r.user_id = user_id))) }

\* SupabaseService defines no insert_product: the attribute lookup raises
\* AttributeError
insert_product(w, product_name, category, product_type) ==
    { Raise(w, <<"'SupabaseService' object has no attribute 'insert_product'">>) }

\* HelperService.insert_product_details
insert_product_details(w, product_name, category, product_type, product_hash) ==
    insert_product(w, product_name, category, product_type)

-----------------------------------------------------------------------------
(* VertexGenerator: the asset persistence pipeline *)

EmptyDict == [k \in {} |-> None]

\* PIL.Image.open(io.BytesIO(data)): the size of a payload that decodes as an
\* image, None (an exception, swallowed) for one that does not
ImagePayloads == { <<137, 80, 78>> }
PIL_size(data) == IF data \in ImagePayloads THEN <<1, 1>> ELSE <<>>

Failed(m) == [status |-> "failed", error |-> m]
Completed(url, signed) ==
    [status |-> "completed", base_url |-> url, signed_url |-> signed]

\* `except Exception as e: return {"status": "failed", "error": str(e)}`
Catch(outs) == { IF o.exc THEN Ret(o.w, Failed(o.val)) ELSE o : o \in outs }

\* steps 2 and 3 of _save_asset: the metadata, the insert, the asset id
record_asset(w, url, data, user_id, asset_type, source, ext, mime, prompt, product_id) ==
    LET size == PIL_size(data.v)
        metadata ==
            [size_bytes |-> Len(data.v), format |-> ext, mime |-> mime]
            @@ (IF Truthy(prompt) THEN [prompt |-> prompt] ELSE EmptyDict)
            @@ (IF Truthy(product_id) THEN [product_id |-> product_id]
                                      ELSE EmptyDict)
            @@ (IF asset_type = "image" /\ size # <<>>
                THEN [width |-> size[1], height |-> size[2]]
                ELSE EmptyDict)
    IN  { IF i.exc THEN i
          ELSE LET result == i.val
                   asset_id ==
                       IF Truthy(result) /\ result.t = "list" /\ Len(result.v) > 0
                       THEN result.v[1].asset_id
                       ELSE None
               IN  Ret(i.w, <<url, asset_id>>)
          : i \in insert_asset(w, user_id, asset_type, source, url, metadata) }

\* _save_asset with the upload's `raise e` lost: the pipeline goes on
save_asset_upload_error_swallowed(w, data, user_id, asset_type, source, prefix, ext, mime, prompt, product_id) ==
    UNION { record_asset(u.w, IF u.exc THEN <<>> ELSE u.val,
                         IF data.t = "bytes" THEN data ELSE Bytes(<<>>),
                         user_id, asset_type, source, ext, mime, prompt, product_id)
            : u \in upload_bytes(w, data, prefix, ext, mime) }

\* returns (url, asset_id); an upload failure is re-raised
save_asset(w, data, user_id, asset_type, source, prefix, ext, mime, prompt, product_id) ==
    UNION { IF u.exc THEN { u }
            ELSE record_asset(u.w, u.val, data, user_id, asset_type, source, ext,
                              mime, prompt, product_id)
            : u \in upload_bytes(w, data, prefix, ext, mime) }

process_media(w, data, prefix, ext, mime, user, asset_type, prompt, product_id) ==
    Catch(UNION {
        IF s.exc THEN { s }
        ELSE
            LET url == s.val[1]
                pieces == SplitSlash1(LStripSlash(urlparse_path(url)))
            IN  IF Len(pieces) < 2
                THEN { Raise(s.w, <<"list index out of range">>) }
                ELSE { IF g.exc THEN g
                       ELSE Ret(g.w, Completed(url, g.val))
                       : g \in generate_signed_url(s.w, pieces[2]) }
        : s \in save_asset(w, data, user, asset_type, "generated", prefix, ext,
                           mime, prompt, product_id) })

-----------------------------------------------------------------------------
(* The generative model client *)

\* bytes the model returns
Payloads == { <<137, 80, 78>> }

Content(parts) == [t |-> "Content", parts |-> parts]
TextPart == [inline_data |-> None]
InlinePart(d) == [inline_data |-> [t |-> "Blob", data |-> Bytes(d)]]
Response(candidates) == [candidates |-> List(candidates)]

ModelResponses ==
    { Response(<<>>),
      Response(<<[content |-> None]>>),
      Response(<<[content |-> Content(None)]>>),
      Response(<<[content |-> Content(List(<<>>))]>>),
      Response(<<[content |-> Content(List(<<TextPart>>))]>>) }
    \cup { Response(<<[content |-> Content(List(<<TextPart, InlinePart(d)>>))]>>)
           : d \in Payloads }

\* self.client.models.generate_content(...)
generate_content(w) ==
    { Raise(Called(w, [op |-> "generate_content_failed"]), m) : m \in ModelErrors }
    \cup
    { Ret(Called(w, [op |-> "generate_content", response |-> r]), r)
      : r \in ModelResponses }

Video(b) == [t |-> "Video", video_bytes |-> b]

\* operation.result() of generate_videos: an object without generated_videos,
\* or one whose generated_videos is None, empty, or holds one video
VideoResults ==
    { [has |-> FALSE, generated_videos |-> None],
      [has |-> TRUE, generated_videos |-> None],
      [has |-> TRUE, generated_videos |-> List(<<>>)],
      [has |-> TRUE, generated_videos |-> List(<<[video |-> None]>>)],
      [has |-> TRUE, generated_videos |-> List(<<[video |-> Video(None)]>>)] }
    \cup { [has |-> TRUE,
            generated_videos |-> List(<<[video |-> Video(Bytes(d))]>>)]
           : d \in Payloads }

\* self.client.models.generate_videos(...), then operation.result()
generate_videos(w) ==
    { Raise(Called(w, [op |-> "generate_videos_failed"]), m) : m \in ModelErrors }
    \cup
    { Ret(Called(w, [op |-> "generate_videos", response |-> r]), r)
      : r \in VideoResults }

-----------------------------------------------------------------------------
(* VertexGenerator: the facade *)

NoImage == Failed(<<"No image generated">>)
NoVideo == Failed(<<"No video generated">>)
ClientUnavailable == Failed(<<"Client unavailable">>)
DownloadFailed == Failed(<<"Failed to download image from provided URL">>)

\* the `return {"status": "failed", "error": "No image generated"}` after the loop
no_image_generated_missing(w) == { Ret(w, None) }
no_image_generated(w) == { Ret(w, NoImage) }

\* the index of the first part with a truthy inline_data, 0 when there is none
RECURSIVE first_inline(_, _)
first_inline(parts, i) ==
    IF i > Len(parts) THEN 0
    ELSE IF Truthy(parts[i].inline_data) THEN i
    ELSE first_inline(parts, i + 1)

\* `if response.candidates and response.candidates[0].content.parts: for part ...`
extract_image(w, response, prefix, user, prompt, product_id) ==
    IF ~Truthy(response.candidates) THEN no_image_generated(w)
    ELSE
        LET content == response.candidates.v[1].content
        IN  IF content.t = "None"
            THEN { Raise(w, <<"'NoneType' object has no attribute 'parts'">>) }
            ELSE IF ~Truthy(content.parts) THEN no_image_generated(w)
            ELSE
                LET i == first_inline(content.parts.v, 1)
                IN  IF i = 0 THEN no_image_generated(w)
                    ELSE process_media(w, content.parts.v[i].inline_data.data,
                                       prefix, <<"png">>, "image/png", user, "image",
                                       prompt, product_id)

\* the body of generate_text_to_image's try
text_to_image_try(w, prompt, aspect_ratio, user) ==
    UNION { IF r.exc THEN { r }
            ELSE extract_image(r.w, r.val, user \o <<"/", "t2i">>, user, prompt, None)
            : r \in generate_content(w) }

\* generate_text_to_image without its try/except
generate_text_to_image_uncaught(w, prompt, aspect_ratio, user) ==
    IF ~genClient THEN { Ret(w, ClientUnavailable) }
    ELSE text_to_image_try(w, prompt, aspect_ratio, user)

generate_text_to_image(w, prompt, aspect_ratio, user) ==
    IF ~genClient THEN { Ret(w, ClientUnavailable) }
    ELSE Catch(text_to_image_try(w, prompt, aspect_ratio, user))

\* step 1 of image->image and image->video: save the input as an "uploaded"
\* asset, or fetch it from image_url. val.ret: the operation returns val.result
resolve_input(w, image_bytes, user, image_url, product_id) ==
    IF ~Truthy(image_url)
    THEN { IF s.exc THEN s
           ELSE Ret(s.w, [ret |-> FALSE, result |-> None,
                          image_bytes |-> image_bytes,
                          product_id |-> IF ~Truthy(product_id) THEN s.val[2]
                                                                ELSE product_id])
           : s \in save_asset(w, image_bytes, user, "image", "uploaded",
                              user \o <<"/", "inputs">>, <<"png">>, "image/png",
                              None, None) }
    ELSE { IF f.exc THEN f
           ELSE IF Truthy(f.val)
           THEN Ret(f.w, [ret |-> FALSE, result |-> None, image_bytes |-> f.val,
                          product_id |-> product_id])
           ELSE Ret(f.w, [ret |-> TRUE, result |-> DownloadFailed,
                          image_bytes |-> image_bytes, product_id |-> product_id])
           : f \in download_image_as_bytes(w, image_url) }

\* step 2 of image->image and variations: the model call and the extraction
generate_from_image(w, prefix, user, prompt, product_id) ==
    UNION { IF r.exc THEN { r }
            ELSE extract_image(r.w, r.val, prefix, user, prompt, product_id)
            : r \in generate_content(w) }

\* the body of generate_image_to_image's try
image_to_image_try(w, image_bytes, prompt, user, image_url, product_id) ==
    UNION { IF a.exc THEN { a }
            ELSE IF a.val.ret THEN { Ret(a.w, a.val.result) }
            ELSE generate_from_image(a.w, user \o <<"/", "i2i">>, user, prompt,
                                     a.val.product_id)
            : a \in resolve_input(w, image_bytes, user, image_url, product_id) }

generate_image_to_image(w, image_bytes, prompt, user, image_url, product_id) ==
    IF ~genClient THEN { Ret(w, ClientUnavailable) }
    ELSE Catch(image_to_image_try(w, image_bytes, prompt, user, image_url,
                                  product_id))

\* the body of generate_image_variations' try
image_variations_try(w, prompt, user, image_url, product_id) ==
    UNION { IF f.exc THEN { f }
            ELSE IF ~Truthy(f.val) THEN { Ret(f.w, DownloadFailed) }
            ELSE generate_from_image(f.w, user \o <<"/", "i2i">>, user, prompt,
                                     product_id)
            : f \in download_image_as_bytes(w, image_url) }

generate_image_variations(w, prompt, user, image_url, product_id) ==
    IF ~genClient THEN { Ret(w, ClientUnavailable) }
    ELSE Catch(image_variations_try(w, prompt, user, image_url, product_id))

\* `if hasattr(result, 'generated_videos'): video_bytes = result.generated_videos[0].video.video_bytes`
extract_video(w, result, user, prompt, product_id) ==
    IF ~result.has THEN { Ret(w, NoVideo) }
    ELSE IF result.generated_videos.t = "None"
    THEN { Raise(w, <<"'NoneType' object is not subscriptable">>) }
    ELSE IF Len(result.generated_videos.v) = 0
    THEN { Raise(w, <<"list index out of range">>) }
    ELSE IF result.generated_videos.v[1].video.t = "None"
    THEN { Raise(w, <<"'NoneType' object has no attribute 'video_bytes'">>) }
    ELSE process_media(w, result.generated_videos.v[1].video.video_bytes,
                       user \o <<"/", "vi">>, <<"mp4">>, "video/mp4", user, "video",
                       prompt, product_id)

\* the body of generate_image_to_video's try
image_to_video_try(w, image_bytes, prompt, user, image_url, product_id) ==
    UNION { IF a.exc THEN { a }
            ELSE IF a.val.ret THEN { Ret(a.w, a.val.result) }
            ELSE UNION { IF r.exc THEN { r }
                         ELSE extract_video(r.w, r.val, user, prompt,
                                            a.val.product_id)
                         : r \in generate_videos(a.w) }
            : a \in resolve_input(w, image_bytes, user, image_url, product_id) }

generate_image_to_video(w, image_bytes, prompt, user, image_url, product_id) ==
    IF ~genClient THEN { Ret(w, ClientUnavailable) }
    ELSE Catch(image_to_video_try(w, image_bytes, prompt, user, image_url,
                                  product_id))

-----------------------------------------------------------------------------
(* Requests *)

\* the `user` form field
Users == { <<"u">>, <<"a", "?", "b">> }
\* the `prompt` form field
Prompts == { Str(<<"p">>) }
\* the optional `product_id` form field
ProductIds == { None, Str(<<"P1">>) }
\* the optional upload
Files == { None, Bytes(<<255, 216>>) }
\* the optional `image_url` form field
ImageUrls ==
    { None, Str(<<"https:", "/", "/", "elsewhere", "/", "x.png">>) }
    \cup { Str(url_prefix \o k) : k \in DOMAIN blobs }

World == [blobs |-> blobs, assets |-> assets, templates |-> templates,
          clock |-> clock, queue |-> queue, calls |-> <<>>]

\* the stores after an operation, and its record: last.arg is the argument a
\* claim reads, None for the operations where none does; last.result is what
\* the operation returned and last.response the answer of a generation
\* handler to it
Commit(op, arg, o) ==
    /\ blobs' = o.w.blobs
    /\ assets' = o.w.assets
    /\ templates' = o.w.templates
    /\ clock' = o.w.clock
    /\ queue' = o.w.queue
    /\ last' = [op |-> op, arg |-> arg, exc |-> o.exc, result |-> o.val,
                calls |-> o.w.calls,
                response |-> IF "response" \in DOMAIN o THEN o.response ELSE None]
    /\ UNCHANGED <<genClient, storageClient, supabaseClient, publisher, deps>>

Room == Cardinality(DOMAIN blobs) < MaxBlobs /\ Len(assets) < MaxAssets

\* a handler's answer: the returned body, or an HTTPException
Http200(body) == [http |-> 200, body |-> body]
\* raise HTTPException(status_code=500, detail=...)
Http500(detail) == [http |-> 500, detail |-> detail]

\* a generation handler with the test of the result lost
error_check_missing(result) == Http200(result)

\* `if "error" in result: raise HTTPException(status_code=500,
\* detail=result["error"])`, else `return result`
error_check(result) ==
    IF "error" \in DOMAIN result THEN Http500(result.error) ELSE Http200(result)

\* a generation handler's answer to what the facade returned; an exception
\* of the facade is not caught
Responded(o) ==
    IF o.exc THEN o
    ELSE [w |-> o.w, exc |-> FALSE, val |-> o.val, response |-> error_check(o.val)]

TextToImage ==
    \E prompt \in Prompts, user \in Users :
         \E o \in generate_text_to_image(World, prompt, "1:1", user) :
            Commit("generate_text_to_image", None, Responded(o))

ImageToImage ==
    \E prompt \in Prompts, user \in Users, file \in Files,
          image_url \in ImageUrls, product_id \in ProductIds :
         \E o \in generate_image_to_image(World, file, prompt, user, image_url,
                                          product_id) :
            Commit("generate_image_to_image", image_url, Responded(o))

ImageVariations ==
    \E prompt \in Prompts, user \in Users, image_url \in ImageUrls,
          product_id \in ProductIds :
         \E o \in generate_image_variations(World, prompt, user, image_url,
                                            product_id) :
            Commit("generate_image_variations", image_url, Responded(o))

ImageToVideo ==
    \E prompt \in Prompts, user \in Users, file \in Files,
          image_url \in ImageUrls, product_id \in ProductIds :
         \E o \in generate_image_to_video(World, file, prompt, user, image_url,
                                          product_id) :
            Commit("generate_image_to_video", image_url, Responded(o))

\* StorageService.download_image_as_base64 of a URL
DownloadImage ==
    \E image_url \in ImageUrls :
        \E o \in download_image_as_base64(World, image_url) :
            Commit("download_image_as_base64", image_url, o)

NoOp == [op |-> "none", arg |-> None, exc |-> FALSE, result |-> None,
         calls |-> <<>>, response |-> None]

Init ==
    /\ blobs = [k \in {} |-> <<>>]
    /\ assets = <<>>
    /\ templates = <<>>
    /\ clock = 0
    /\ queue = <<>>
    /\ genClient \in BOOLEAN
    /\ storageClient \in BOOLEAN
    /\ supabaseClient \in BOOLEAN
    /\ publisher = TRUE
    /\ last = NoOp
    /\ deps = Warm(genClient)

Next ==
    \/ Room /\ TextToImage
    \/ Room /\ ImageToImage
    \/ Room /\ ImageVariations
    \/ Room /\ ImageToVideo
    \/ DownloadImage

\* the bucket already holds a blob, stored by an earlier run of the service
StoredKeys == { <<"u", "/", "t2i", "_", "0a1b2c3d", ".", "png">> }

InitStored ==
    /\ blobs \in { [k \in K |-> <<137, 80, 78>>] : K \in SUBSET StoredKeys }
    /\ assets = <<>>
    /\ templates = <<>>
    /\ clock = 0
    /\ queue = <<>>
    /\ genClient \in BOOLEAN
    /\ storageClient \in BOOLEAN
    /\ supabaseClient \in BOOLEAN
    /\ publisher = TRUE
    /\ last = NoOp
    /\ deps = Warm(genClient)

\* room for MaxBlobs blobs beside the stored one
RoomBeside ==
    /\ Cardinality(DOMAIN blobs \ StoredKeys) < MaxBlobs
    /\ Len(assets) < MaxAssets

NextStored ==
    \/ RoomBeside /\ ImageToImage
    \/ RoomBeside /\ ImageVariations
    \/ RoomBeside /\ ImageToVideo

SpecStored == InitStored /\ [][NextStored]_vars

Spec == Init /\ [][Next]_vars

-----------------------------------------------------------------------------
(* Request handlers of the template routes *)

\* an UploadFile
File(filename, content_type, data) ==
    [filename |-> filename, content_type |-> content_type, data |-> data]

\* file.filename.split(".")[-1] if "." in file.filename else "png"
extension(filename) ==
    IF Find(filename, {"."}, 1) = 0 THEN <<"png">>
    ELSE From(filename, RFind(filename, {"."}, Len(filename)) + 1)

\* file.content_type or "image/png"
mime_of(file) ==
    IF Truthy(file.content_type) THEN file.content_type.v[1] ELSE "image/png"

\* POST /generate/templates/upsert
upsert_template_route(w, template_name, category, product_type, prompt, file) ==
    UNION {
        IF u.exc
        THEN { Ret(u.w, Http500(<<"Failed to upload image to GCS: ">> \o u.val)) }
        ELSE { IF r.exc THEN r
               ELSE LET g == Called(r.w, [op |-> "upsert_template",
                                          returned |-> r.val])
                    IN  IF r.val.t = "dict" /\ HasKey(r.val, <<"error">>)
                        THEN Ret(g, Http500(r.val.items[<<"error">>]))
                        ELSE Ret(g, Http200([status |-> "success", data |-> r.val]))
               : r \in upsert_template(u.w, template_name, category, product_type,
                                       Str(u.val), prompt) }
        : u \in upload_bytes(w, file.data,
                             <<"templates", "/">> \o category.v \o <<"/", "img">>,
                             extension(file.filename), mime_of(file)) }

\* GET /generate/templates/filters
get_template_filters_route(w) ==
    { IF r.exc THEN r
      ELSE LET g == Called(r.w, [op |-> "get_template_filters", returned |-> r.val])
           IN  IF HasKey(r.val, <<"error">>)
               THEN Ret(g, Http500(r.val.items[<<"error">>]))
               ELSE Ret(g, Http200(r.val))
      : r \in get_template_filters(w) }

\* the form fields of an upsert
TemplateNames == { Str(<<"t1">>), Str(<<"t2">>) }
UpsertCategories == { Str(<<"shoes">>), Str(<<"bags">>) }
UpsertProductTypes == { Str(<<"a">>) }
UpsertPrompts == { Str(<<"p">>), Str(<<"q">>) }
TemplateFiles == { File(<<"shoe", ".", "jpg">>, Str(<<"image/jpeg">>), Bytes(<<255, 216>>)) }

\* upserts a run makes
MaxUpserts == 2

UpsertTemplate ==
    /\ clock < MaxUpserts
    /\ \E template_name \in TemplateNames, category \in UpsertCategories,
          product_type \in UpsertProductTypes, prompt \in UpsertPrompts,
          file \in TemplateFiles :
         \E o \in upsert_template_route(World, template_name, category,
                                        product_type, prompt, file) :
            Commit("upsert_template",
                   [template_name |-> template_name, category |-> category,
                    product_type |-> product_type, prompt |-> prompt], o)

GetTemplateFilters ==
    \E o \in get_template_filters_route(World) :
        Commit("get_template_filters", None, o)

\* the templates table starts empty; rows come from upserts
InitTemplates ==
    /\ blobs = [k \in {} |-> <<>>]
    /\ assets = <<>>
    /\ templates = <<>>
    /\ clock = 0
    /\ queue = <<>>
    /\ genClient = TRUE
    /\ storageClient \in BOOLEAN
    /\ supabaseClient \in BOOLEAN
    /\ publisher = TRUE
    /\ last = NoOp
    /\ deps = Warm(genClient)

NextTemplates == UpsertTemplate \/ GetTemplateFilters

SpecTemplates == InitTemplates /\ [][NextTemplates]_vars

\* rows the table may hold, whoever wrote them: a column may be NULL or ''
RowCategories == { None, Str(<<>>), Str(<<"shoes">>), Str(<<"error">>) }
RowProductTypes == { None, Str(<<>>), Str(<<"a">>), Str(<<"a", "b">>), Str(<<"B">>) }
TemplateRows ==
    { [template_name |-> n, category |-> c, product_type |-> t,
       image_url |-> Str(url_prefix \o <<"templates", "/", "x.png">>),
       prompt |-> Str(<<"p">>), updated_date |-> 0]
      : n \in TemplateNames, c \in RowCategories, t \in RowProductTypes }

\* rows of the table a read starts from
MaxRows == 2

\* the unique constraint the upsert's conflict target stands on; NULLs are distinct
UniqueTriples(rows) ==
    \A i, j \in 1..Len(rows) :
        (i # j /\ SameTriple(rows[i], rows[j])) =>
            \/ rows[i].category = None
            \/ rows[i].product_type = None

InitFilters ==
    /\ blobs = [k \in {} |-> <<>>]
    /\ assets = <<>>
    /\ templates \in UNION { [1..n -> TemplateRows] : n \in 0..MaxRows }
    /\ UniqueTriples(templates)
    /\ clock = 0
    /\ queue = <<>>
    /\ genClient = TRUE
    /\ storageClient = TRUE
    /\ supabaseClient \in BOOLEAN
    /\ publisher = TRUE
    /\ last = NoOp
    /\ deps = Warm(genClient)

NextFilters == GetTemplateFilters

SpecFilters == InitFilters /\ [][NextFilters]_vars

-----------------------------------------------------------------------------
(* PubSubService, HelperService and POST /generate *)

\* str(e) of an exception raised by publisher.publish(..).result()
PublishErrors == { <<"publish error">> }

\* the id the broker gives the n-th message of the topic
message_id_of(n) == Str(<<"msg", ToString(n)>>)

publish_message(w, data) ==
    IF ~publisher THEN { Ret(w, None) }
    ELSE { Raise(Called(w, [op |-> "publish_failed", error |-> m]), m)
           : m \in PublishErrors }
         \cup
         { LET message_id == message_id_of(Len(w.queue) + 1)
           IN  Ret(Called([w EXCEPT !.queue = Append(@, data)],
                          [op |-> "publish", data |-> data,
                           message_id |-> message_id]),
                   message_id) }

\* process_uploads passes product_id=..., a keyword insert_asset does not
\* take: the call raises TypeError before the body runs
insert_asset_product_id(w, user_id, asset_type, source, storage_path, metadata, product_id) ==
    { Raise(Called(w, [op |-> "insert_asset_rejected", path |-> storage_path]),
            <<"insert_asset() got an unexpected keyword argument 'product_id'">>) }

RECURSIVE process_files_stop_on_failure(_, _, _, _, _, _)
\* the loop with `break` where the handler has `continue`
process_files_stop_on_failure(w, files, i, user, product_id, urls) ==
    IF i > Len(files) THEN { Ret(w, urls) }
    ELSE UNION {
             IF u.exc THEN { Ret(u.w, urls) }
             ELSE UNION { IF a.exc THEN { Ret(a.w, Append(urls, u.val)) }
                          ELSE process_files_stop_on_failure(
                                   a.w, files, i + 1, user, product_id,
                                   Append(urls, u.val))
                          : a \in insert_asset_product_id(
                                u.w, user, "image", "uploaded", u.val,
                                [size_bytes |-> Len(files[i].data.v),
                                 format |-> extension(files[i].filename),
                                 mime |-> mime_of(files[i])],
                                product_id) }
             : u \in upload_bytes(Called(w, [op |-> "file", index |-> i]),
                                  files[i].data, user \o <<"/", "inputs">>,
                                  extension(files[i].filename), mime_of(files[i])) }

RECURSIVE process_files(_, _, _, _, _, _)
\* the loop of process_uploads from files[i] on; urls is the list so far.
\* An exception of the body is caught and the loop continues
process_files(w, files, i, user, product_id, urls) ==
    IF i > Len(files) THEN { Ret(w, urls) }
    ELSE UNION {
             IF u.exc
             THEN process_files(u.w, files, i + 1, user, product_id, urls)
             ELSE UNION { process_files(a.w, files, i + 1, user, product_id,
                                        Append(urls, u.val))
                          : a \in insert_asset_product_id(
                                u.w, user, "image", "uploaded", u.val,
                                [size_bytes |-> Len(files[i].data.v),
                                 format |-> extension(files[i].filename),
                                 mime |-> mime_of(files[i])],
                                product_id) }
             : u \in upload_bytes(Called(w, [op |-> "file", index |-> i]),
                                  files[i].data, user \o <<"/", "inputs">>,
                                  extension(files[i].filename), mime_of(files[i])) }

\* files is None or a List of UploadFile
process_uploads(w, files, user, product_id) ==
    IF ~Truthy(files) THEN { Ret(w, <<>>) }
    ELSE { IF o.exc THEN o
           ELSE Ret(Called(o.w, [op |-> "process_uploads_returned",
                                 urls |-> o.val]),
                    o.val)
           : o \in process_files(Called(w, [op |-> "process_uploads",
                                            files |-> files.v]),
                                 files.v, 1, user, product_id, <<>>) }

\* step 4 with the `if not message_id` test lost
publish_job_unchecked(w, payload) ==
    { IF m.exc
      THEN Ret(Called(m.w, [op |-> "publish_message_raised", error |-> m.val]),
               Http500(<<"Pub/Sub Error: ">> \o m.val))
      ELSE Ret(Called(m.w, [op |-> "publish_message_returned", value |-> m.val]),
               Http200([status |-> "queued", message_id |-> m.val,
                        data |-> payload]))
      : m \in publish_message(w, payload) }

\* step 4 of the handler: publish, and answer queued or HTTP 500
publish_job(w, payload) ==
    { IF m.exc
      THEN Ret(Called(m.w, [op |-> "publish_message_raised", error |-> m.val]),
               Http500(<<"Pub/Sub Error: ">> \o m.val))
      ELSE LET r == Called(m.w, [op |-> "publish_message_returned",
                                 value |-> m.val])
           IN  IF ~Truthy(m.val)
               THEN Ret(r, Http500(<<"Pub/Sub Error: ", "500: ",
                                     "Failed to publish to Pub/Sub (Client unavailable)">>))
               ELSE Ret(r, Http200([status |-> "queued", message_id |-> m.val,
                                    data |-> payload]))
      : m \in publish_message(w, payload) }

\* random.randint(10000, 99999)
RandomSuffixes == { "10000", "99999" }

\* the urls a list of files or a list of urls gives the payload
WithReferenceUrls(w, reference_images, referance_urls, user) ==
    IF Truthy(reference_images)
    THEN { IF o.exc THEN o ELSE Ret(o.w, List(o.val))
           : o \in process_uploads(w, reference_images, user, None) }
    ELSE IF Truthy(referance_urls) THEN { Ret(w, referance_urls) }
    ELSE { Ret(w, List(<<>>)) }

WithProductUrls(w, product_images, product_urls, user, product_id) ==
    IF Truthy(product_images)
    THEN { IF o.exc THEN o ELSE Ret(o.w, List(o.val))
           : o \in process_uploads(w, product_images, user, product_id) }
    ELSE { Ret(w, product_urls) }

\* POST /generate: an exception the handler does not catch is the outcome
generate(w, prompt, user, category, product_type, generation_type, product_name, product_images, reference_images, product_urls, referance_urls) ==
    LET names == IF Truthy(product_name) THEN { product_name }
                 ELSE { Str(category.v \o <<"_">> \o product_type.v \o <<"_", n>>)
                        : n \in RandomSuffixes }
        ids == IF Truthy(product_images)
               THEN UNION { insert_product(w, name, category, product_type)
                            : name \in names }
               ELSE { Ret(w, Str(<<>>)) }
    IN  UNION {
          IF id.exc THEN { id }
          ELSE UNION {
            IF p.exc THEN { p }
            ELSE UNION {
              IF r.exc THEN { r }
              ELSE publish_job(r.w, [product_urls |-> p.val,
                                     reference_urls |-> r.val,
                                     prompt |-> prompt,
                                     user |-> user,
                                     generation_type |-> generation_type])
              : r \in WithReferenceUrls(p.w, reference_images, referance_urls, user) }
            : p \in WithProductUrls(id.w, product_images, product_urls, user, id.val) }
          : id \in ids }

\* files of one multipart field
MaxFiles == 2
\* messages on the topic
MaxQueue == 1

\* UploadFiles: one with an extension and a content type, one with neither
UploadFile(i) ==
    IF i % 2 = 1
    THEN File(<<"a", ".", "jpg">>, Str(<<"image/jpeg">>), Bytes(<<255, 216>>))
    ELSE File(<<"b">>, None, Bytes(<<137, 80, 78>>))
FileLists ==
    { None } \cup { List([i \in 1..n |-> UploadFile(i)]) : n \in 1..MaxFiles }
ProductImages == { None, List(<<UploadFile(1)>>) }
UrlLists == { None, List(<<<<"https:", "/", "/", "elsewhere", "/", "x.png">>>>) }
ProductNames == { None, Str(<<"n">>) }
GenerateUsers == { <<"u">> }

Generate ==
    /\ Cardinality(DOMAIN blobs) < MaxBlobs
    /\ Len(queue) < MaxQueue
    /\ \E user \in GenerateUsers, product_name \in ProductNames,
          product_images \in ProductImages, reference_images \in FileLists,
          product_urls \in UrlLists, referance_urls \in UrlLists :
         \E o \in generate(World, Str(<<"p">>), user, Str(<<"shoes">>),
                           Str(<<"a">>), Str(<<"image">>), product_name,
                           product_images, reference_images, product_urls,
                           referance_urls) :
            Commit("generate", product_images, o)

InitGenerate ==
    /\ blobs = [k \in {} |-> <<>>]
    /\ assets = <<>>
    /\ templates = <<>>
    /\ clock = 0
    /\ queue = <<>>
    /\ genClient = TRUE
    /\ storageClient \in BOOLEAN
    /\ supabaseClient \in BOOLEAN
    /\ publisher \in BOOLEAN
    /\ last = NoOp
    /\ deps = Warm(genClient)

NextGenerate == Generate

SpecGenerate == InitGenerate /\ [][NextGenerate]_vars

-----------------------------------------------------------------------------
(* The operations of SupabaseService, each called on its own *)

GatewayOps == { "SupabaseService.upsert_template", "SupabaseService.insert_asset",
                "SupabaseService.insert_product",
                "SupabaseService.get_template_filters",
                "SupabaseService.get_templates", "SupabaseService.get_user_assets" }

AssetSources == { "uploaded", "generated" }
AssetPaths == { url_prefix \o <<"u", "/", "t2i", "_", "0a1b2c3d", ".", "png">> }

GatewayUpsertTemplate ==
    /\ clock < MaxUpserts
    /\ \E template_name \in TemplateNames, category \in UpsertCategories,
          product_type \in UpsertProductTypes, prompt \in UpsertPrompts,
          image_url \in AssetPaths :
         \E o \in upsert_template(World, template_name, category, product_type,
                                  Str(image_url), prompt) :
            Commit("SupabaseService.upsert_template", None, o)

GatewayInsertAsset ==
    /\ Len(assets) < MaxAssets
    /\ \E user \in Users, source \in AssetSources, path \in AssetPaths :
         \E o \in insert_asset(World, user, "image", source, path, EmptyDict) :
            Commit("SupabaseService.insert_asset", None, o)

GatewayInsertProduct ==
    \E product_name \in ProductNames \ { None } :
        \E o \in insert_product_details(World, product_name, Str(<<"shoes">>),
                                        Str(<<"a">>), Str(<<"h">>)) :
            Commit("SupabaseService.insert_product", None, o)

GatewayGetTemplateFilters ==
    \E o \in get_template_filters(World) :
        Commit("SupabaseService.get_template_filters", None, o)

GatewayGetTemplates ==
    \E category \in UpsertCategories, product_type \in UpsertProductTypes :
        \E o \in get_templates(World, category, product_type) :
            Commit("SupabaseService.get_templates", None, o)

GatewayGetUserAssets ==
    \E user \in Users :
        \E o \in get_user_assets(World, user) :
            Commit("SupabaseService.get_user_assets", None, o)

InitGateway ==
    /\ blobs = [k \in {} |-> <<>>]
    /\ assets = <<>>
    /\ templates = <<>>
    /\ clock = 0
    /\ queue = <<>>
    /\ genClient = TRUE
    /\ storageClient = TRUE
    /\ supabaseClient \in BOOLEAN
    /\ publisher = TRUE
    /\ last = NoOp
    /\ deps = Warm(genClient)

NextGateway ==
    \/ GatewayUpsertTemplate
    \/ GatewayInsertAsset
    \/ GatewayInsertProduct
    \/ GatewayGetTemplateFilters
    \/ GatewayGetTemplates
    \/ GatewayGetUserAssets

SpecGateway == InitGateway /\ [][NextGateway]_vars

-----------------------------------------------------------------------------
(* The read handlers, and all the handlers of the router together *)

\* the key of the blob a public URL names: parsed.path.lstrip("/").split("/", 1)
path_parts(url) == SplitSlash1(LStripSlash(urlparse_path(url)))

RECURSIVE sign_templates(_, _, _, _)
\* the loop of list_templates from templates[i] on: image_url becomes a
\* signed URL; nothing is caught
sign_templates(w, rows, i, results) ==
    IF i > Len(rows) THEN { Ret(w, Http200(List(results))) }
    ELSE IF Len(path_parts(rows[i].image_url.v)) < 2
    THEN { Raise(w, <<"list index out of range">>) }
    ELSE UNION { IF g.exc THEN { g }
                 ELSE sign_templates(g.w, rows, i + 1,
                                     Append(results,
                                            [rows[i] EXCEPT !.image_url = Str(g.val)]))
                 : g \in generate_signed_url(w, path_parts(rows[i].image_url.v)[2]) }

\* GET /generate/templates/list
list_templates(w, category, product_type) ==
    UNION { IF t.exc THEN { t }
            ELSE LET g == Called(t.w, [op |-> "get_templates", returned |-> t.val])
                 IN  IF t.val.t = "dict" /\ HasKey(t.val, <<"error">>)
                     THEN { Ret(g, Http500(t.val.items[<<"error">>])) }
                     ELSE sign_templates(g, t.val.v, 1, <<>>)
            : t \in get_templates(w, category, product_type) }

\* "storage.googleapis.com" in storage_path
Contains(s, token) == \E i \in 1..Len(s) : s[i] = token

RECURSIVE sign_assets(_, _, _, _)
\* the loop of get_user_assets from assets[i] on: a signed_url is added to
\* the rows of this bucket's host; a failure to sign is caught and the row is
\* kept without it
sign_assets(w, rows, i, results) ==
    IF i > Len(rows) THEN { Ret(w, Http200(List(results))) }
    ELSE IF /\ Len(rows[i].storage_path) > 0
            /\ Contains(rows[i].storage_path, HOST)
            /\ Len(path_parts(rows[i].storage_path)) > 1
    THEN UNION { IF g.exc
                 THEN sign_assets(g.w, rows, i + 1, Append(results, rows[i]))
                 ELSE sign_assets(g.w, rows, i + 1,
                                  Append(results,
                                         rows[i] @@ [signed_url |-> g.val]))
                 : g \in generate_signed_url(w, path_parts(rows[i].storage_path)[2]) }
    ELSE sign_assets(w, rows, i + 1, Append(results, rows[i]))

\* GET /generate/assets
get_user_assets_route(w, user_id) ==
    UNION { IF a.exc THEN { a }
            ELSE LET g == Called(a.w, [op |-> "get_user_assets", returned |-> a.val])
                 IN  IF a.val.t = "dict" /\ HasKey(a.val, <<"error">>)
                     THEN { Ret(g, Http500(a.val.items[<<"error">>])) }
                     ELSE sign_assets(g, a.val.v, 1, <<>>)
            : a \in get_user_assets(w, user_id) }

ListTemplates ==
    \E category \in UpsertCategories, product_type \in UpsertProductTypes :
        \E o \in list_templates(World, category, product_type) :
            Commit("list_templates", None, o)

GetUserAssets ==
    \E user \in Users :
        \E o \in get_user_assets_route(World, user) :
            Commit("get_user_assets", None, o)

\* writes the stores of a run of all the handlers take
MaxLoad == 1

\* what the stores hold
Load == Cardinality(DOMAIN blobs) + Len(assets) + clock + Len(queue)

\* a handler that writes runs while the stores hold less than MaxLoad
Light == Load < MaxLoad

InitRoutes ==
    /\ blobs = [k \in {} |-> <<>>]
    /\ assets = <<>>
    /\ templates = <<>>
    /\ clock = 0
    /\ queue = <<>>
    /\ genClient \in BOOLEAN
    /\ storageClient \in BOOLEAN
    /\ supabaseClient \in BOOLEAN
    /\ publisher = TRUE
    /\ last = NoOp
    /\ deps = Warm(genClient)

NextRoutes ==
    \/ Light /\ Room /\ TextToImage
    \/ Light /\ Room /\ ImageToImage
    \/ Light /\ Room /\ ImageVariations
    \/ Light /\ Room /\ ImageToVideo
    \/ Light /\ UpsertTemplate
    \/ Light /\ Generate
    \/ GetTemplateFilters
    \/ ListTemplates
    \/ GetUserAssets

SpecRoutes == InitRoutes /\ [][NextRoutes]_vars

-----------------------------------------------------------------------------
(* The operations that store: generations, and the uploads of /generate *)

\* a generation starts while the bucket holds at most MaxBlobs blobs and the
\* assets table fewer than MaxAssets rows
RoomAfter ==
    /\ Cardinality(DOMAIN blobs) <= MaxBlobs
    /\ Len(assets) < MaxAssets

InitUploads ==
    /\ blobs = [k \in {} |-> <<>>]
    /\ assets = <<>>
    /\ templates = <<>>
    /\ clock = 0
    /\ queue = <<>>
    /\ genClient = TRUE
    /\ storageClient = TRUE
    /\ supabaseClient = TRUE
    /\ publisher = TRUE
    /\ last = NoOp
    /\ deps = Warm(genClient)

NextUploads ==
    \/ RoomAfter /\ TextToImage
    \/ RoomAfter /\ ImageToImage
    \/ RoomAfter /\ ImageVariations
    \/ RoomAfter /\ ImageToVideo
    \/ Generate

SpecUploads == InitUploads /\ [][NextUploads]_vars

-----------------------------------------------------------------------------
(* Dependency resolution of concurrent requests *)

\* worker threads resolving dependencies at once
MaxThreads == 2

RECURSIVE Sum(_, _)
Sum(f, S) == IF S = {} THEN 0
             ELSE LET x == CHOOSE y \in S : TRUE IN f[x] + Sum(f, S \ {x})

stores == <<blobs, assets, templates, clock, queue, genClient, storageClient,
            supabaseClient, publisher, last>>

\* the getter's cache holds an instance: the request gets it
CacheHit ==
    \E g \in Getters :
        /\ deps.cached[g] # 0
        /\ deps' = [deps EXCEPT !.used[g] = @ \cup {deps.cached[g]}]
        /\ UNCHANGED stores

\* the cache is empty: the thread enters the getter's body. lru_cache holds
\* no lock while the body runs, so a second thread can enter it too
CacheMiss ==
    \E g \in Getters :
        /\ deps.cached[g] = 0
        /\ Sum(deps.calling, Getters) < MaxThreads
        /\ deps' = [deps EXCEPT !.calling[g] = @ + 1]
        /\ UNCHANGED stores

\* the body returns a new instance: the request gets it, and the cache keeps
\* it unless another thread has filled the cache meanwhile
Construct ==
    \E g \in Getters :
        /\ deps.calling[g] > 0
        /\ LET made == Constructs(ClassOf[g], genClient)
               id == deps.built[ClassOf[g]] + 1
           IN  deps' = [deps EXCEPT
                          !.built = [c \in Classes |-> deps.built[c] + made[c]],
                          !.calling[g] = @ - 1,
                          !.cached[g] = IF @ = 0 THEN id ELSE @,
                          !.used[g] = @ \cup {id}]
        /\ UNCHANGED stores

InitDeps ==
    /\ blobs = [k \in {} |-> <<>>]
    /\ assets = <<>>
    /\ templates = <<>>
    /\ clock = 0
    /\ queue = <<>>
    /\ genClient \in BOOLEAN
    /\ storageClient = TRUE
    /\ supabaseClient = TRUE
    /\ publisher = TRUE
    /\ last = NoOp
    /\ deps = Cold

NextDeps == CacheHit \/ CacheMiss \/ Construct

SpecDeps == InitDeps /\ [][NextDeps]_vars

-----------------------------------------------------------------------------
(* Properties of the facade and the persistence pipeline *)

FacadeOps == { "generate_text_to_image", "generate_image_to_image",
               "generate_image_variations", "generate_image_to_video" }
ImageOps == { "generate_text_to_image", "generate_image_to_image",
              "generate_image_variations" }

IsCompleted(r) ==
    /\ DOMAIN r = {"status", "base_url", "signed_url"}
    /\ r.status = "completed"
IsFailed(r) ==
    /\ DOMAIN r = {"status", "error"}
    /\ r.status = "failed"

Calls == last.calls
CallAt(i, ops) == i \in 1..Len(Calls) /\ Calls[i].op \in ops

\* the model returned media and the storage write that followed raised
GeneratedThenUploadFailed ==
    \E i \in 1..Len(Calls) :
        /\ CallAt(i, {"generate_content", "generate_videos"})
        /\ CallAt(i + 1, {"upload_failed"})

\* C1: each of the four facade operations returns {status: "completed",
\* base_url, signed_url} or {status: "failed", error} and never raises,
\* whatever the model, the storage and the metadata store do; a generation
\* that succeeds followed by a failing storage upload returns the failed shape.
C1_TwoShapesNeverRaises ==
    last.op \in FacadeOps =>
        /\ ~last.exc
        /\ IsCompleted(last.result) \/ IsFailed(last.result)
        /\ GeneratedThenUploadFailed => IsFailed(last.result)

C1_Witness ==
    /\ last.op = "generate_text_to_image"
    /\ GeneratedThenUploadFailed
    /\ ~last.exc
    /\ IsFailed(last.result)

\* C2 (as claimed): a result with status "completed" means the generated
\* media's Asset row was inserted.
C2_CompletedOnlyIfInserted ==
    (last.op \in FacadeOps /\ ~last.exc /\ IsCompleted(last.result)) =>
        \E i \in 1..Len(Calls) :
            /\ Calls[i].op = "insert_asset"
            /\ Calls[i].source = "generated"
            /\ Calls[i].path = last.result.base_url

\* a response with no candidate, a first candidate without parts, or parts
\* none of which carries an inline payload
NoInlinePayload(r) ==
    \/ r.candidates.v = <<>>
    \/ r.candidates.v[1].content.t = "None"
    \/ r.candidates.v[1].content.parts.t = "None"
    \/ \A i \in 1..Len(r.candidates.v[1].content.parts.v) :
          r.candidates.v[1].content.parts.v[i].inline_data = None

\* the model call of the last operation answered without media
NoMediaAt(i) == CallAt(i, {"generate_content"}) /\ NoInlinePayload(Calls[i].response)

\* C3 (as claimed): when the model answers without media, an image
\* generation operation fails with a non-empty error, uploads nothing and
\* inserts no generated Asset row.
C3_NoMediaNoUploadAtAll ==
    (last.op \in ImageOps /\ \E i \in 1..Len(Calls) : NoMediaAt(i)) =>
        /\ ~last.exc
        /\ IsFailed(last.result)
        /\ last.result.error # <<>>
        /\ \A j \in 1..Len(Calls) :
              Calls[j].op \notin {"upload", "upload_failed"}
        /\ \A j \in 1..Len(Calls) :
              Calls[j].op = "insert_asset" => Calls[j].source # "generated"

\* C3 (amended): when the model answers without media, an image generation
\* operation fails with a non-empty error, makes no storage or metadata-store
\* call after the model call, and inserts no generated Asset row; the only
\* upload of such a call is the input image that image->image stored before
\* it called the model.
C3_NoMediaNoGeneratedUpload ==
    [][ (last'.op \in ImageOps /\ last' # last) =>
          \A i \in 1..Len(last'.calls) :
             (/\ last'.calls[i].op = "generate_content"
              /\ NoInlinePayload(last'.calls[i].response)) =>
                /\ ~last'.exc
                /\ IsFailed(last'.result)
                /\ last'.result.error # <<>>
                /\ i = Len(last'.calls)
                /\ \A j \in 1..Len(last'.calls) :
                      /\ last'.calls[j].op \in {"upload", "upload_failed"}
                            => last'.op = "generate_image_to_image"
                      /\ last'.calls[j].op = "insert_asset"
                            => last'.calls[j].source = "uploaded"
                /\ { a \in 1..Len(assets') : assets'[a].source = "generated" }
                     = { a \in 1..Len(assets) : assets[a].source = "generated" }
      ]_vars

C3_Witness ==
    /\ last.op = "generate_image_to_image"
    /\ IsFailed(last.result)
    /\ \E i \in 1..Len(Calls) :
          /\ NoMediaAt(i)
          /\ \E j \in 1..(i - 1) : Calls[j].op = "upload"

\* C4: in the persistence pipeline a failing upload ends the call: nothing is
\* inserted or signed after it and its error is the operation's error; without
\* a storage client nothing is inserted or signed at all; and a blob that was
\* uploaded stays in the bucket whatever the insert that follows does.
C4_UploadFailureAborts ==
    last.op \in FacadeOps =>
        /\ \A i \in 1..Len(Calls) :
              Calls[i].op = "upload_failed" =>
                 /\ i = Len(Calls)
                 /\ ~last.exc
                 /\ last.result = Failed(Calls[i].error)
        /\ ~storageClient =>
              \A i \in 1..Len(Calls) :
                 Calls[i].op \notin {"insert_asset", "insert_asset_failed",
                                     "sign", "sign_failed"}
        /\ \A i \in 1..Len(Calls) :
              Calls[i].op = "upload" =>
                 /\ Calls[i].key \in DOMAIN blobs
                 /\ blobs[Calls[i].key] = Calls[i].data

\* one call in which an insert failed after its upload, and a later upload failed
C4_Witness ==
    /\ last.op \in FacadeOps
    /\ \E i \in 1..Len(Calls) :
          /\ CallAt(i, {"upload"})
          /\ CallAt(i + 1, {"insert_asset_failed"})
          /\ Calls[i].key \in DOMAIN blobs
    /\ CallAt(Len(Calls), {"upload_failed"})
    /\ IsFailed(last.result)

\* C5 (as claimed): downloading the URL an upload returned yields the
\* uploaded bytes.
C5_RoundTrip ==
    \A k \in DOMAIN blobs :
        (/\ last.op = "download_image_as_base64"
         /\ last.arg = Str(url_prefix \o k)
         /\ last.result # None)
        => last.result = Bytes(blobs[k])

\* C6 (as claimed): the key a signed URL is minted for is the key the media
\* was uploaded under.
C6_SignedKeyIsUploadedKey ==
    last.op \in FacadeOps =>
        \A i \in 1..Len(Calls) :
            Calls[i].op \in {"sign", "sign_failed"} =>
                \E j \in 1..(i - 1) :
                    /\ Calls[j].op = "upload"
                    /\ \A k \in (j + 1)..(i - 1) : Calls[k].op # "upload"
                    /\ Calls[j].key = Calls[i].key

-----------------------------------------------------------------------------
(* Properties of the template gateway *)

\* the last operation read the filters and the read succeeded
FiltersRead == last.op = "get_template_filters" /\ CallAt(1, {"select"})

\* C7: the mapping get_template_filters returns lists, for each category, its
\* product types in strictly increasing lexicographic order (sorted, no
\* duplicate), holds every (category, product type) of the rows in which both
\* are set (not NULL, not ''), and holds nothing else.
C7_FiltersDistinctSorted ==
    FiltersRead =>
        LET m == Calls[2].returned.items
        IN  /\ \A c \in DOMAIN m :
                  \A i, j \in 1..Len(m[c]) :
                      i < j => (m[c][i] # m[c][j] /\ StrLess(m[c][i], m[c][j]))
            /\ \A k \in 1..Len(templates) :
                  (Truthy(templates[k].category) /\ Truthy(templates[k].product_type))
                  => /\ templates[k].category.v \in DOMAIN m
                     /\ \E j \in 1..Len(m[templates[k].category.v]) :
                           m[templates[k].category.v][j] = templates[k].product_type.v
            /\ \A c \in DOMAIN m :
                  \A j \in 1..Len(m[c]) :
                      \E k \in 1..Len(templates) :
                          /\ templates[k].category = Str(c)
                          /\ templates[k].product_type = Str(m[c][j])

\* two rows of one category, stored in decreasing order, listed in increasing order
C7_Witness ==
    /\ FiltersRead
    /\ Len(templates) = 2
    /\ Truthy(templates[1].category)
    /\ templates[1].category = templates[2].category
    /\ Truthy(templates[1].product_type)
    /\ Truthy(templates[2].product_type)
    /\ StrLess(templates[2].product_type.v, templates[1].product_type.v)
    /\ Calls[2].returned.items[templates[1].category.v]
         = <<templates[2].product_type.v, templates[1].product_type.v>>

\* C8: an upsert_template that succeeds leaves exactly one row with its
\* (template_name, category, product_type), carrying its prompt, and leaves
\* the rows of every other triple as they were; so of two calls with one
\* triple the second prompt is the one stored.
C8_UpsertLastWriterWins ==
    [][ \A i \in 1..Len(last'.calls) :
          (last'.op = "upsert_template" /\ last'.calls[i].op = "upsert") =>
             LET d == last'.calls[i].data
             IN  /\ d.template_name = last'.arg.template_name
                 /\ d.category = last'.arg.category
                 /\ d.product_type = last'.arg.product_type
                 /\ d.prompt = last'.arg.prompt
                 /\ Cardinality({ k \in 1..Len(templates') :
                                    SameTriple(templates'[k], d) }) = 1
                 /\ \A k \in 1..Len(templates') :
                       SameTriple(templates'[k], d) => templates'[k].prompt = d.prompt
                 /\ { templates'[k] : k \in { n \in 1..Len(templates') :
                                               ~SameTriple(templates'[n], d) } }
                      = { templates[k] : k \in { n \in 1..Len(templates) :
                                                 ~SameTriple(templates[n], d) } }
                 /\ Len(templates') \in { Len(templates), Len(templates) + 1 }
      ]_vars

\* the second upsert of a triple, with another prompt than the first
C8_Witness ==
    /\ last.op = "upsert_template"
    /\ \E i \in 1..Len(Calls) :
          /\ Calls[i].op = "upsert"
          /\ \E k \in 1..Len(Calls[i].before) :
                /\ SameTriple(Calls[i].before[k], Calls[i].data)
                /\ Calls[i].before[k].prompt # Calls[i].data.prompt
                /\ Calls[i].before[k].updated_date < Calls[i].data.updated_date
          /\ Cardinality({ k \in 1..Len(templates) :
                             SameTriple(templates[k], Calls[i].data) }) = 1
          /\ \E k \in 1..Len(templates) : templates[k] = Calls[i].data

-----------------------------------------------------------------------------
(* Properties of POST /generate *)

\* the handler's answer is HTTP 500: an HTTPException(500) it raised, or an
\* exception it did not catch
Answered500 == last.exc \/ last.result.http = 500
AnsweredQueued ==
    /\ ~last.exc
    /\ last.result.http = 200
    /\ last.result.body.status = "queued"

BrokerCalls == { i \in 1..Len(Calls) : Calls[i].op \in {"publish", "publish_failed"} }

\* C9: /generate answers queued only with the message id of a publish the
\* broker acknowledged; without a queue client publish_message returns None,
\* the broker is not called and the answer is HTTP 500; when the publish
\* raises, the exception leaves publish_message and the answer is HTTP 500.
C9_QueuedOnlyWhenAcknowledged ==
    last.op = "generate" =>
        /\ AnsweredQueued =>
              \E i \in BrokerCalls :
                  /\ Calls[i].op = "publish"
                  /\ Truthy(Calls[i].message_id)
                  /\ last.result.body.message_id = Calls[i].message_id
                  /\ last.result.body.data = Calls[i].data
                  /\ Len(queue) > 0
                  /\ queue[Len(queue)] = Calls[i].data
        /\ ~publisher =>
              /\ BrokerCalls = {}
              /\ Answered500
              /\ \A i \in 1..Len(Calls) :
                    Calls[i].op # "publish_message_raised"
                    /\ (Calls[i].op = "publish_message_returned"
                        => Calls[i].value = None)
        /\ \A i \in BrokerCalls :
              Calls[i].op = "publish_failed" =>
                  /\ i < Len(Calls)
                  /\ Calls[i + 1] = [op |-> "publish_message_raised",
                                     error |-> Calls[i].error]
                  /\ Answered500

\* no queue client: publish_message returned None and the answer is HTTP 500
C9_Witness ==
    /\ last.op = "generate"
    /\ ~publisher
    /\ Len(Calls) > 0
    /\ Calls[Len(Calls)] = [op |-> "publish_message_returned", value |-> None]
    /\ ~last.exc
    /\ last.result.http = 500
    /\ queue = <<>>

\* the calls of one process_uploads: from its entry at p to its return at r
ReturnAfter(p) ==
    { r \in p + 1..Len(Calls) :
        /\ Calls[r].op = "process_uploads_returned"
        /\ \A q \in p + 1..r - 1 : Calls[q].op # "process_uploads_returned" }
FileAt(p, r, i) ==
    { q \in p + 1..r - 1 : Calls[q].op = "file" /\ Calls[q].index = i }
UploadsIn(p, r) == { q \in p + 1..r - 1 : Calls[q].op = "upload" }

\* C10: process_uploads takes the files one at a time in input order; a
\* failure on one file does not stop the later files; the call returns (does
\* not raise) and the returned list is the URLs of the files whose upload
\* succeeded, in input order.
C10_FailureDoesNotStopLaterFiles ==
    \A p \in 1..Len(Calls) :
        Calls[p].op = "process_uploads" =>
            /\ ReturnAfter(p) # {}
            /\ \A r \in ReturnAfter(p) :
                  LET n == Len(Calls[p].files)
                      urls == Calls[r].urls
                  IN  /\ \A i \in 1..n : Cardinality(FileAt(p, r, i)) = 1
                      /\ \A i, j \in 1..n :
                            i < j => \A a \in FileAt(p, r, i), b \in FileAt(p, r, j) :
                                         a < b
                      /\ \A q \in p + 1..r - 1 :
                            Calls[q].op = "file" =>
                                /\ Calls[q].index \in 1..n
                                /\ Calls[q + 1].op = "upload" =>
                                      Calls[q + 1].data
                                        = Calls[p].files[Calls[q].index].data.v
                      /\ Len(urls) = Cardinality(UploadsIn(p, r))
                      /\ \A q \in UploadsIn(p, r) :
                            urls[Cardinality({ x \in UploadsIn(p, r) : x <= q })]
                              = url_prefix \o Calls[q].key

\* the first file's upload failed and the second file's URL is returned
C10_Witness ==
    /\ last.op = "generate"
    /\ Len(Calls) >= 6
    /\ Calls[1].op = "process_uploads"
    /\ Len(Calls[1].files) = 2
    /\ Calls[2] = [op |-> "file", index |-> 1]
    /\ Calls[3].op = "upload_failed"
    /\ Calls[4] = [op |-> "file", index |-> 2]
    /\ Calls[5].op = "upload"
    /\ \E r \in ReturnAfter(1) : Calls[r].urls = << url_prefix \o Calls[5].key >>

\* C11: with the metadata store available, every URL process_uploads returns
\* has an Asset row with source "uploaded" whose storage_path is that URL.
C11_ReturnedUrlsHaveRows ==
    (last.op = "generate" /\ supabaseClient) =>
        \A r \in 1..Len(Calls) :
            Calls[r].op = "process_uploads_returned" =>
                \A k \in 1..Len(Calls[r].urls) :
                    \E a \in 1..Len(assets) :
                        /\ assets[a].source = "uploaded"
                        /\ assets[a].storage_path = Calls[r].urls[k]

-----------------------------------------------------------------------------
(* Properties of the metadata store gateway *)

IsErrorMarker(v) == v.t = "dict" /\ HasKey(v, <<"error">>)

\* C12: every operation of SupabaseService returns its data (rows, or the
\* filters mapping) or an error marker {error: message}, and never raises,
\* with the client raising and with no client.
C12_DataOrMarkerNeverRaises ==
    last.op \in GatewayOps =>
        /\ ~last.exc
        /\ \/ IsErrorMarker(last.result)
           \/ last.result.t = "list"
           \/ last.op = "SupabaseService.get_template_filters" /\ last.result.t = "dict"

-----------------------------------------------------------------------------
(* Properties of the handlers *)

\* the handlers that test what a gateway returned, and the call records that
\* hold the returned value
MarkerRoutes == { "upsert_template", "get_template_filters", "list_templates",
                  "get_user_assets" }
ReturnRecords == { "upsert_template", "get_template_filters", "get_templates",
                   "get_user_assets" }

\* C13: when the facade or the gateway a handler calls returns a value with
\* an error marker, the handler answers HTTP 500 with the marker's message as
\* detail; an answer that is not 500 is a 200 whose body has no error marker.
C13_MarkerBecomes500 ==
    /\ (last.op \in FacadeOps /\ ~last.exc) =>
          /\ "error" \in DOMAIN last.result =>
                last.response = Http500(last.result.error)
          /\ last.response.http \in {200, 500}
          /\ last.response.http = 200 =>
                /\ last.response.body = last.result
                /\ "error" \notin DOMAIN last.response.body
    /\ last.op \in MarkerRoutes =>
          /\ \A i \in 1..Len(Calls) :
                (Calls[i].op \in ReturnRecords /\ IsErrorMarker(Calls[i].returned)) =>
                    /\ ~last.exc
                    /\ last.result = Http500(Calls[i].returned.items[<<"error">>])
          /\ ~last.exc =>
                /\ last.result.http \in {200, 500}
                /\ last.result.http = 200 =>
                      \A i \in 1..Len(Calls) :
                          Calls[i].op \in ReturnRecords =>
                              ~IsErrorMarker(Calls[i].returned)
    /\ (last.op = "generate" /\ ~last.exc) => last.result.http \in {200, 500}

\* the model call of a generation failed, and the facade's failed result is
\* answered with HTTP 500 and its message
C13_Witness ==
    /\ last.op \in FacadeOps
    /\ ~last.exc
    /\ \E i \in 1..Len(Calls) :
          Calls[i].op \in {"generate_content_failed", "generate_videos_failed"}
    /\ "error" \in DOMAIN last.result
    /\ last.response = Http500(last.result.error)

-----------------------------------------------------------------------------
(* Properties of the input resolution *)

UrlOps == { "generate_image_to_image", "generate_image_variations",
            "generate_image_to_video" }
ModelCalls == { "generate_content", "generate_content_failed",
                "generate_videos", "generate_videos_failed" }

\* the request named, by its bucket URL, a blob the bucket holds
StoredUrlGiven ==
    /\ last.op \in UrlOps
    /\ last.arg.t = "str"
    /\ StartsWith(last.arg.v, url_prefix)
    /\ Replace(last.arg.v, url_prefix) \in DOMAIN blobs

\* C14: given the bucket URL of an existing blob, with the generator and the
\* storage client available, the operation downloads the blob and calls the
\* model with it, without storing an "uploaded" Asset; given a URL without the
\* bucket prefix it fails without a model call.
C14_UrlInputReachesModel ==
    /\ (StoredUrlGiven /\ genClient /\ storageClient) =>
          /\ \E i \in 1..Len(Calls) : Calls[i].op = "download"
          /\ \E i \in 1..Len(Calls) : Calls[i].op \in ModelCalls
          /\ \A i \in 1..Len(Calls) :
                Calls[i].op = "insert_asset" => Calls[i].source # "uploaded"
    /\ (last.op \in UrlOps /\ last.arg.t = "str"
          /\ ~StartsWith(last.arg.v, url_prefix)) =>
          /\ ~last.exc
          /\ last.result.status = "failed"
          /\ \A i \in 1..Len(Calls) : Calls[i].op \notin ModelCalls

-----------------------------------------------------------------------------
(* Properties of the product of a /generate request *)

\* C15: a /generate request with product image files gets a product id from
\* the insert of one Product row, uploads its product images under that id
\* and goes on to publish the job.
C15_ProductImagesReachPublish ==
    (last.op = "generate" /\ Truthy(last.arg)) =>
        /\ ~last.exc
        /\ \E i \in 1..Len(Calls) :
              Calls[i].op = "process_uploads" /\ Calls[i].files = last.arg.v
        /\ \E i \in 1..Len(Calls) :
              Calls[i].op \in {"publish_message_returned", "publish_message_raised"}

-----------------------------------------------------------------------------
(* Properties of the dependency getters *)

\* C16: each gateway class is constructed at most once in the process, and
\* every request gets the same instance from a getter.
C16_OneInstancePerGateway ==
    /\ \A c \in Classes : deps.built[c] <= 1
    /\ \A g \in Getters : Cardinality(deps.used[g]) <= 1

-----------------------------------------------------------------------------
(* Properties of the stored assets *)

\* C17: an operation only adds: the blobs and the Asset rows it found are
\* left as they were, and each row it adds has as storage_path the public URL
\* of a blob the same operation uploaded before.
C17_RowsAndBlobsOnlyAdded ==
    [][ /\ \A k \in DOMAIN blobs : k \in DOMAIN blobs' /\ blobs'[k] = blobs[k]
        /\ Len(assets') >= Len(assets)
        /\ \A i \in 1..Len(assets) : assets'[i] = assets[i]
        /\ \A i \in Len(assets) + 1..Len(assets') :
              \E j \in 1..Len(last'.calls) :
                  /\ last'.calls[j].op = "upload"
                  /\ assets'[i].storage_path = url_prefix \o last'.calls[j].key
                  /\ \E n \in j + 1..Len(last'.calls) :
                        /\ last'.calls[n].op = "insert_asset"
                        /\ last'.calls[n].path = assets'[i].storage_path
      ]_vars

-----------------------------------------------------------------------------
(* Properties of GET /generate/templates/filters *)

\* C18: when the read of the templates table succeeds, the handler answers
\* with the mapping the gateway produced, unchanged; it answers HTTP 500 only
\* when the gateway reported a failure.
C18_SuccessfulReadAnswersMapping ==
    last.op = "get_template_filters" =>
        /\ FiltersRead =>
              /\ ~last.exc
              /\ last.result = Http200(Calls[2].returned)
        /\ (~last.exc /\ last.result.http = 500) =>
              \/ ~supabaseClient
              \/ CallAt(1, {"select_failed"})

====
